---------------------------- MODULE Spec2Model ----------------------------
(***************************************************************************)
(* powermon: a command line client that queries one power-monitoring       *)
(* sensor over a serial line with 7-byte request/response packets.         *)
(*                                                                         *)
(* Part 1 models the protocol codec of powermon.cpp (Packet, Request,      *)
(* Response) as operators, with the float arithmetic of Response::Get      *)
(* carried out in IEEE-754 binary32 (24-bit significand, round to nearest, *)
(* ties to even).  Part 2 models main() and class Device step by step      *)
(* against a serial channel whose far end is the environment.  Part 3 is   *)
(* a specification that applies the codec to packets drawn from bounded    *)
(* sets.  Part 4 is a caller of class Device that calls Get more than once *)
(* on one Device.  Part 5 holds the properties.                            *)
(*                                                                         *)
(* Packet bodies are functions on 0..6, so that Body[i] below is Body[i]   *)
(* of the source.                                                          *)
(***************************************************************************)
EXTENDS Integers, Sequences, FiniteSets, TLC

(***************************************************************************)
(* Part 1: the codec                                                       *)
(***************************************************************************)

\* enum Sensor
VOLTAGE == 0
CURRENT == 1
POWER == 2
ENERGY == 3
TEST == 4

Sensors == {VOLTAGE, CURRENT, POWER, ENERGY, TEST}

Byte == 0..255

\* DEFAULT_ADDR = {0xc0, 0xa8, 0x01, 0x01}
DEFAULT_ADDR == <<192, 168, 1, 1>>

\* sizeof(Request) = sizeof(Response) = sizeof(std::array<uint8_t, 7>)
PacketSize == 7

\* Direction nibbles of Body[0]: 0xb0 in Request::Request, 0xa0 in Response::Get
REQUEST_TYPE == 176
RESPONSE_TYPE == 160

RECURSIVE BitOr(_, _)
\* a | b on non-negative integers
BitOr(a, b) ==
  IF a = 0 THEN b
  ELSE IF b = 0 THEN a
  ELSE (IF a % 2 = 1 \/ b % 2 = 1 THEN 1 ELSE 0) + 2 * BitOr(a \div 2, b \div 2)

RECURSIVE BitAnd(_, _)
\* a & b on non-negative integers
BitAnd(a, b) ==
  IF a = 0 \/ b = 0 THEN 0
  ELSE (IF a % 2 = 1 /\ b % 2 = 1 THEN 1 ELSE 0) + 2 * BitAnd(a \div 2, b \div 2)

\* Packet::Body = {0}
ZeroBody == [i \in 0..6 |-> 0]

\* the sum taken over Body[0..4] only
GetChecksumOfFive(Body) ==
  (Body[0] + Body[1] + Body[2] + Body[3] + Body[4]) % 256

\* Packet::GetChecksum: the unsigned sum of Body[0..5], cast to uint8_t
GetChecksum(Body) ==
  (Body[0] + Body[1] + Body[2] + Body[3] + Body[4] + Body[5]) % 256

\* Request::Request with Body[6] left at 0
RequestWithoutChecksum(sens) ==
  [i \in 0..6 |-> IF i = 0 THEN BitOr(REQUEST_TYPE, sens) % 256
                  ELSE IF i \in 1..4 THEN DEFAULT_ADDR[i] ELSE 0]

\* Request::Request with the code of the next enumerator in Body[0]
RequestOfNextSensor(sens) ==
  LET b == [i \in 0..6 |-> IF i = 0 THEN BitOr(REQUEST_TYPE, (sens + 1) % 5) % 256
                           ELSE IF i \in 1..4 THEN DEFAULT_ADDR[i] ELSE 0]
  IN  [b EXCEPT ![6] = GetChecksum(b)]

\* Request::Request(sens): the body of the request packet
Request(sens) ==
  LET b0 == [ZeroBody EXCEPT ![0] = BitOr(REQUEST_TYPE, sens) % 256]
      b1 == [i \in 0..6 |-> IF i \in 1..4 THEN DEFAULT_ADDR[i] ELSE b0[i]]
  IN  [b1 EXCEPT ![6] = GetChecksum(b1)]

(***************************************************************************)
(* binary32 values.  A float is [man, exp] with value man * 2^(exp - 23)   *)
(* and 2^23 <= man < 2^24, or FloatZero.  Only the non-negative finite     *)
(* normal values Response::Get can produce occur.                          *)
(***************************************************************************)
FloatZero == [man |-> 0, exp |-> 0]

RECURSIVE Pow2(_)
Pow2(n) == IF n = 0 THEN 1 ELSE 2 * Pow2(n - 1)

RECURSIVE ILog2(_)
\* floor(log2 x) for x >= 1
ILog2(x) == IF x < 2 THEN 0 ELSE 1 + ILog2(x \div 2)

\* n / d rounded to the nearest integer, ties to even
RoundHalfEven(n, d) ==
  LET q == n \div d
      r == n % d
  IN  IF 2 * r < d THEN q
      ELSE IF 2 * r > d THEN q + 1
      ELSE IF q % 2 = 0 THEN q ELSE q + 1

\* a significand that rounding carried up to 2^24 moves to the next exponent
Normalize(m, e) ==
  IF m = Pow2(24) THEN [man |-> Pow2(23), exp |-> e + 1] ELSE [man |-> m, exp |-> e]

\* the conversion int -> float of a value 0 <= i < 2^24 (exact)
IntToFloat(i) ==
  IF i = 0 THEN FloatZero
  ELSE [man |-> i * Pow2(23 - ILog2(i)), exp |-> ILog2(i)]

RECURSIVE DivExp(_, _, _)
\* for 0 < b < d: the exponent e < 0 with 2^e <= b / d < 2^(e+1), searched
\* downwards from e
DivExp(b, d, e) == IF b * Pow2(-e) >= d THEN e ELSE DivExp(b, d, e - 1)

\* Body[3] / d without the conversion to float: the integer quotient
FloatDivAsInt(b, d) == IntToFloat(b \div d)

\* float(b) / d for a byte b and d in {10, 100}: the quotient rounded to binary32
FloatDiv(b, d) ==
  IF b = 0 THEN FloatZero
  ELSE LET e == IF b >= d THEN ILog2(b \div d) ELSE DivExp(b, d, -1)
           m == IF e <= 23
                THEN RoundHalfEven(b * Pow2(23 - e), d)
                ELSE RoundHalfEven(b, d * Pow2(e - 23))
       IN  Normalize(m, e)

\* i + f for an int 0 <= i < 2^16 and a float f < 2^7: i converts to float
\* exactly and the sum is rounded to binary32
IntPlusFloat(i, f) ==
  IF f = FloatZero THEN IntToFloat(i)
  ELSE LET fi == IF f.exp < 0 THEN 0 ELSE f.man \div Pow2(23 - f.exp)
           e  == IF i + fi >= 1 THEN ILog2(i + fi) ELSE f.exp
           m  == i * Pow2(23 - e) + RoundHalfEven(f.man, Pow2(e - f.exp))
       IN  Normalize(m, e)

\* The outcome of a call that returns a float or throws std::runtime_error(msg)
Return(v) == [ok |-> TRUE, val |-> v, err |-> ""]
Throw(msg) == [ok |-> FALSE, val |-> FloatZero, err |-> msg]

\* Ensure(cond, msg) followed by the rest of the function
Ensure(cond, msg, rest) == IF ~cond THEN Throw(msg) ELSE rest

\* the comparison of Body[0] with the direction bits alone
TypeOkDirectionOnly(Body, sens) == BitAnd(Body[0], 240) = RESPONSE_TYPE

\* the comparison of Body[0] with the sensor bits alone
TypeOkSensorOnly(Body, sens) == BitAnd(Body[0], 15) = sens

\* Body[0] == (0xa0 | sens)
TypeOk(Body, sens) == Body[0] = BitOr(RESPONSE_TYPE, sens)

\* the checksum comparison left out
ChecksumSkipped(Body) == TRUE

\* Body[6] == GetChecksum()
ChecksumOk(Body) == Body[6] = GetChecksum(Body)

\* case VOLTAGE of Response::Get
CaseVOLTAGE(Body) ==
  Ensure(Body[4] = 0, "VOLTAGE: Body[4]",
  Ensure(Body[5] = 0, "VOLTAGE: Body[5]",
  Return(IntPlusFloat(256 * Body[1] + Body[2], FloatDiv(Body[3], 10)))))

\* case CURRENT of Response::Get
CaseCURRENT(Body) ==
  Ensure(Body[4] = 0, "CURRENT: Body[4]",
  Ensure(Body[5] = 0, "CURRENT: Body[5]",
  Return(IntPlusFloat(256 * Body[1] + Body[2], FloatDiv(Body[3], 100)))))

\* case POWER with Body[5] checked first and Body[3] last
CasePOWERBackwards(Body) ==
  Ensure(Body[5] = 0, "POWER: Body[5]",
  Ensure(Body[4] = 0, "POWER: Body[4]",
  Ensure(Body[3] = 0, "POWER: Body[3]",
  Return(IntToFloat(256 * Body[1] + Body[2])))))

\* case POWER of Response::Get
CasePOWER(Body) ==
  Ensure(Body[3] = 0, "POWER: Body[3]",
  Ensure(Body[4] = 0, "POWER: Body[4]",
  Ensure(Body[5] = 0, "POWER: Body[5]",
  Return(IntToFloat(256 * Body[1] + Body[2])))))

\* case ENERGY of Response::Get
CaseENERGY(Body) ==
  Ensure(Body[4] = 0, "ENERGY: Body[4]",
  Ensure(Body[5] = 0, "ENERGY: Body[5]",
  Return(IntToFloat(65536 * Body[1] + 256 * Body[2] + Body[3]))))

\* case TEST of Response::Get
CaseTEST(Body) ==
  Ensure(Body[1] = 0, "TEST: Body[1]",
  Ensure(Body[2] = 0, "TEST: Body[2]",
  Ensure(Body[3] = 0, "TEST: Body[3]",
  Ensure(Body[4] = 0, "TEST: Body[4]",
  Ensure(Body[5] = 0, "TEST: Body[5]",
  Return(IntToFloat(0)))))))

\* Response::Get with its first two Ensure lines in the other order
ResponseGetChecksumFirst(Body, sens) ==
  Ensure(ChecksumOk(Body), "Invalid checksum",
  Ensure(TypeOk(Body, sens), "Invalid response type",
  CASE sens = VOLTAGE -> CaseVOLTAGE(Body)
    [] sens = CURRENT -> CaseCURRENT(Body)
    [] sens = POWER -> CasePOWER(Body)
    [] sens = ENERGY -> CaseENERGY(Body)
    [] sens = TEST -> CaseTEST(Body)))

\* Response::Get(sens) on a packet body.  sens is one of the five enumerators:
\* main passes no other value, and the switch has no default.
ResponseGet(Body, sens) ==
  Ensure(TypeOk(Body, sens), "Invalid response type",
  Ensure(ChecksumOk(Body), "Invalid checksum",
  CASE sens = VOLTAGE -> CaseVOLTAGE(Body)
    [] sens = CURRENT -> CaseCURRENT(Body)
    [] sens = POWER -> CasePOWER(Body)
    [] sens = ENERGY -> CaseENERGY(Body)
    [] sens = TEST -> CaseTEST(Body)))

(***************************************************************************)
(* Part 2: main() and class Device against the serial channel              *)
(***************************************************************************)

\* The most bytes the far end puts on the line in one run
MaxRx == 8

\* struct timeval timeout = {1, 0}: the seconds ::select waits at most
TIMEOUT_SEC == 1

\* no Get has returned or thrown
NoResult == [ok |-> FALSE, val |-> FloatZero, err |-> ""]

\* Part 3 at rest
CodecOff ==
  [step |-> "off", sens |-> TEST, pkt |-> ZeroBody, res |-> NoResult,
   orig |-> ZeroBody, origres |-> NoResult, pos |-> 0]

\* main is the caller: one Get, then the Device is destroyed
SessOff == [caller |-> "main", calls |-> 0, rx0 |-> <<>>, prev |-> NoResult, taken |-> 0]

VARIABLES
  argc,      \* main's argc
  mode,      \* argv[2]
  pc,        \* the statement main is at
  handle,    \* Device::Handle's descriptor: "none", "open" or "closed"
  sens,      \* the Sensor passed to Device::Get
  wire,      \* the bytes ::write has put on the channel, in order
  rx,        \* the bytes received on the channel and not yet read
  hup,       \* the far end has closed the channel
  devOn,     \* the far end has chosen what to send
  devFrame,  \* the 7 bytes the far end sends, over and over
  devSent,   \* how many bytes the far end has sent
  resp,      \* Response resp of Device::ReadResponse
  waited,    \* the seconds the current ::select has waited
  ops,       \* the channel operations of the current Device::Get, in order
  result,    \* what Device::Get returned or threw
  out,       \* the lines written to std::cout
  exitCode,  \* main's return value, -1 while it runs
  codec,     \* Part 3
  sess       \* the caller of Device::Get: main, or Part 4's caller

vars == <<argc, mode, pc, handle, sens, wire, rx, hup, devOn, devFrame, devSent,
          resp, waited, ops, result, out, exitCode, codec, sess>>

progVars == <<argc, mode, pc, handle, sens, wire, resp, waited, ops, result, out,
              exitCode, sess>>

Modes == {"test", "voltage", "current", "power", "energy"}

\* an argv[2] that is none of the five
OtherMode == "frequency"

\* the mode comparisons with voltage and current calling Get for each other's sensor
SensorOfSwapped(m) ==
  CASE m = "test" -> TEST
    [] m = "voltage" -> CURRENT
    [] m = "current" -> VOLTAGE
    [] m = "power" -> POWER
    [] m = "energy" -> ENERGY

\* the chain of mode comparisons in main
SensorOf(m) ==
  CASE m = "test" -> TEST
    [] m = "voltage" -> VOLTAGE
    [] m = "current" -> CURRENT
    [] m = "power" -> POWER
    [] m = "energy" -> ENERGY

\* std::string("Failed to ") + op; the strerror(errno) text after it is left out
FailedTo(op) ==
  CASE op = "open" -> "Failed to open"
    [] op = "get properties" -> "Failed to get properties"
    [] op = "set ispeed" -> "Failed to set ispeed"
    [] op = "set ospeed" -> "Failed to set ospeed"
    [] op = "set properties" -> "Failed to set properties"
    [] op = "send request" -> "Failed to send request"
    [] op = "read response" -> "Failed to read response"

\* a line of std::cout
Line(kind, text, val) == [kind |-> kind, text |-> text, val |-> val]

\* the first n elements of a packet body as a sequence
Prefix(Body, n) == [i \in 1..n |-> Body[i - 1]]

Min(a, b) == IF a < b THEN a ELSE b

\* what the far end may send: a response of some sensor with one of a few
\* payloads, its checksum right or off by one
DevPayloads ==
  { <<0, 0, 0, 0, 0>>, <<0, 230, 5, 0, 0>>, <<0, 1, 44, 0, 0>>, <<0, 1, 0, 1, 0>> }

DevFrames ==
  { LET b == [i \in 0..6 |-> IF i = 0 THEN BitOr(RESPONSE_TYPE, s)
                             ELSE IF i = 6 THEN 0 ELSE p[i]]
    IN  [b EXCEPT ![6] = (GetChecksum(b) + d) % 256]
    : s \in Sensors, p \in DevPayloads, d \in {0, 1} }

Init ==
  /\ argc \in {2, 3}
  /\ mode \in Modes \cup {OtherMode}
  /\ pc = "main"
  /\ handle = "none"
  /\ sens = TEST
  /\ wire = <<>>
  /\ rx = <<>>
  /\ hup = FALSE
  /\ devOn = FALSE
  /\ devFrame = ZeroBody
  /\ devSent = 0
  /\ resp = ZeroBody
  /\ waited = 0
  /\ ops = <<>>
  /\ result = NoResult
  /\ out = <<>>
  /\ exitCode = -1
  /\ codec = CodecOff
  /\ sess = SessOff

\* the catch block returning 0
CatchReturnsZero(msg, constructed) ==
  /\ out' = Append(out, Line("error", msg, FloatZero))
  /\ exitCode' = 0
  /\ handle' = IF constructed THEN "closed" ELSE handle
  /\ pc' = "exit"

\* catch (const std::exception& e) in main: print e.what(), return 1.  Unwinding
\* runs ~Device, which closes Handle, only when dev was constructed.
Catch(msg, constructed) ==
  /\ out' = Append(out, Line("error", msg, FloatZero))
  /\ exitCode' = 1
  /\ handle' = IF constructed THEN "closed" ELSE handle
  /\ pc' = "exit"

\* main up to the try block
MainArgs ==
  /\ pc = "main"
  /\ IF argc < 3
     THEN /\ out' = Append(out, Line("usage", "<device> [test|voltage|current|power|energy]", FloatZero))
          /\ exitCode' = 1
          /\ pc' = "exit"
     ELSE /\ pc' = "Device"
          /\ UNCHANGED <<out, exitCode>>
  /\ UNCHANGED <<argc, mode, handle, sens, wire, rx, hup, devOn, devFrame, devSent,
                 resp, waited, ops, result, codec, sess>>

\* Device::Device: Handle(::open(...)) and CheckResult(Handle != -1, "open")
DeviceOpen ==
  /\ pc = "Device"
  /\ \E fd \in {-1, 3} :
       IF fd # -1
       THEN /\ handle' = "open"
            /\ pc' = "configure"
            /\ UNCHANGED <<out, exitCode>>
       ELSE Catch(FailedTo("open"), FALSE)
  /\ UNCHANGED <<argc, mode, sens, wire, rx, hup, devOn, devFrame, devSent,
                 resp, waited, ops, result, codec, sess>>

\* Device::Device after the open: tcgetattr, cfsetispeed, cfsetospeed, tcsetattr,
\* each under CheckResult.  failed is the first call that fails, "" when none does.
DeviceConfigure ==
  /\ pc = "configure"
  /\ \E failed \in {"", "get properties", "set ispeed", "set ospeed", "set properties"} :
       IF failed = ""
       THEN /\ pc' = "mode"
            /\ UNCHANGED <<out, exitCode, handle>>
       ELSE Catch(FailedTo(failed), FALSE)
  /\ UNCHANGED <<argc, mode, sens, wire, rx, hup, devOn, devFrame, devSent,
                 resp, waited, ops, result, codec, sess>>

\* main: the comparisons of mode, up to the call of dev.Get
MainMode ==
  /\ pc = "mode"
  /\ IF mode \in Modes
     THEN /\ sens' = SensorOf(mode)
          /\ pc' = "SendRequest"
          /\ UNCHANGED <<out, exitCode, handle>>
     ELSE /\ Catch("Unknown mode", TRUE)
          /\ UNCHANGED sens
  /\ UNCHANGED <<argc, mode, wire, rx, hup, devOn, devFrame, devSent,
                 resp, waited, ops, result, codec, sess>>

\* Device::Get with ReadResponse called before WaitResponse
GetNextReadFirst(p) ==
  CASE p = "SendRequest" -> "ReadResponse"
    [] p = "ReadResponse" -> "WaitResponse"
    [] p = "WaitResponse" -> "print"

\* Device::Get: the statement that follows each of its calls
GetNext(p) ==
  CASE p = "SendRequest" -> "WaitResponse"
    [] p = "WaitResponse" -> "ReadResponse"
    [] p = "ReadResponse" -> "print"

\* the test of ::write's result for any bytes at all
WriteOkAny(n) == n > 0

\* ::write(Handle, &req, sizeof(req)) == sizeof(req)
WriteOk(n) == n = PacketSize

\* the test of ::select's result against 0 alone
SelectOkNonZero(r) == r # 0

\* the test of ::read's result for any bytes at all
ReadOkAny(n) == n > 0

\* ::select(...) > 0 && FD_ISSET(Handle, &readSet); Handle is the only descriptor
\* of the set, so it is set whenever select returns a positive count
SelectOk(r) == r > 0

\* ::read(Handle, &resp, sizeof(resp)) == sizeof(resp)
ReadOk(n) == n = PacketSize

\* an entry of ops: the call, what it returned (0 for Response::Get) and whether
\* the check made of it passed
Op(name, ret, okay) == [op |-> name, ret |-> ret, ok |-> okay]

\* Get threw: the exception reaches the catch block of its caller; Part 4's
\* caller keeps the Device
GetThrows(msg) ==
  /\ result' = Throw(msg)
  /\ IF sess.caller = "main"
     THEN Catch(msg, TRUE)
     ELSE /\ pc' = "caught"
          /\ UNCHANGED <<out, exitCode, handle>>

\* Device::SendRequest.  n is what ::write returns: -1, or the bytes it took.
SendRequest ==
  /\ pc = "SendRequest"
  /\ \E n \in -1..PacketSize :
       /\ wire' = wire \o Prefix(Request(sens), IF n < 0 THEN 0 ELSE n)
       /\ ops' = Append(ops, Op("write", n, WriteOk(n)))
       /\ IF WriteOk(n)
          THEN /\ pc' = GetNext("SendRequest")
               /\ UNCHANGED <<result, out, exitCode, handle>>
          ELSE GetThrows(FailedTo("send request"))
  /\ UNCHANGED <<argc, mode, sens, rx, hup, devOn, devFrame, devSent, resp, waited,
                 codec, sess>>

\* ::select given no timeout: it waits for as long as the channel is not readable
SelectWaitsForever ==
  /\ pc = "WaitResponse"
  /\ rx = <<>> /\ ~hup
  /\ UNCHANGED vars

\* ::select waiting: a second passes with the channel not readable
SelectWaits ==
  /\ pc = "WaitResponse"
  /\ rx = <<>> /\ ~hup
  /\ waited < TIMEOUT_SEC
  /\ waited' = waited + 1
  /\ UNCHANGED <<argc, mode, pc, handle, sens, wire, rx, hup, devOn, devFrame, devSent,
                 resp, ops, result, out, exitCode, codec, sess>>

\* Device::WaitResponse.  r is what ::select returns: 1 when the channel is
\* readable (bytes are waiting, or the far end hung up), 0 when the timeout is
\* over and nothing came, -1 on an error.
WaitResponse ==
  /\ pc = "WaitResponse"
  /\ \E r \in {-1, 0, 1} :
       /\ r = 1 => (rx # <<>> \/ hup)
       /\ r = 0 => (rx = <<>> /\ ~hup /\ waited = TIMEOUT_SEC)
       /\ ops' = Append(ops, Op("select", r, SelectOk(r)))
       /\ IF SelectOk(r)
          THEN /\ pc' = GetNext("WaitResponse")
               /\ UNCHANGED <<result, out, exitCode, handle>>
          ELSE GetThrows("Timeout while reading")
  /\ UNCHANGED <<argc, mode, sens, wire, rx, hup, devOn, devFrame, devSent, resp,
                 waited, codec, sess>>

\* Device::ReadResponse.  n is what ::read returns: -1 on an error, 0 at end of
\* file, else the bytes waiting, at most sizeof(resp) (VMIN = 7, VTIME = 1: the
\* read ends at 7 bytes or when the line falls silent).  With nothing waiting
\* and no hangup the read blocks.
ReadResponse ==
  /\ pc = "ReadResponse"
  /\ \E n \in -1..PacketSize :
       /\ n >= 0 => n = Min(PacketSize, Len(rx))
       /\ n = 0 => hup
       /\ LET k == IF n < 0 THEN 0 ELSE n
              body == [i \in 0..6 |-> IF i < k THEN rx[i + 1] ELSE ZeroBody[i]]
          IN  /\ resp' = body
              /\ rx' = SubSeq(rx, k + 1, Len(rx))
              /\ IF ReadOk(n)
                 THEN /\ ops' = ops \o <<Op("read", n, TRUE),
                                          Op("decode", 0, ResponseGet(body, sens).ok)>>
                      /\ IF ResponseGet(body, sens).ok
                         THEN /\ result' = ResponseGet(body, sens)
                              /\ pc' = GetNext("ReadResponse")
                              /\ UNCHANGED <<out, exitCode, handle>>
                         ELSE GetThrows(ResponseGet(body, sens).err)
                 ELSE /\ ops' = Append(ops, Op("read", n, FALSE))
                      /\ GetThrows(FailedTo("read response"))
  /\ UNCHANGED <<argc, mode, sens, wire, hup, devOn, devFrame, devSent, waited, codec, sess>>

\* main: print what Get returned ("Ok!" for test), return 0; ~Device closes Handle
MainPrint ==
  /\ pc = "print"
  /\ sess.caller = "main"
  /\ out' = Append(out, IF mode = "test" THEN Line("text", "Ok!", FloatZero)
                        ELSE Line("reading", "", result.val))
  /\ exitCode' = 0
  /\ handle' = "closed"
  /\ pc' = "exit"
  /\ UNCHANGED <<argc, mode, sens, wire, rx, hup, devOn, devFrame, devSent,
                 resp, waited, ops, result, codec, sess>>

\* The far end picks the frame it will send
DevRespond ==
  /\ handle = "open" /\ pc # "exit"
  /\ ~devOn /\ ~hup
  /\ devOn' = TRUE
  /\ devFrame' \in DevFrames
  /\ UNCHANGED <<rx, hup, devSent, codec>>
  /\ UNCHANGED progVars

\* One more byte of it arrives
DevDeliver ==
  /\ handle = "open" /\ pc # "exit"
  /\ devOn /\ ~hup
  /\ devSent < MaxRx
  /\ rx' = Append(rx, devFrame[devSent % PacketSize])
  /\ devSent' = devSent + 1
  /\ UNCHANGED <<hup, devOn, devFrame, codec>>
  /\ UNCHANGED progVars

\* The far end closes the channel
DevHangup ==
  /\ handle = "open" /\ pc # "exit"
  /\ ~hup
  /\ hup' = TRUE
  /\ UNCHANGED <<rx, devOn, devFrame, devSent, codec>>
  /\ UNCHANGED progVars

Next ==
  \/ MainArgs
  \/ DeviceOpen
  \/ DeviceConfigure
  \/ MainMode
  \/ SendRequest
  \/ SelectWaits
  \/ WaitResponse
  \/ ReadResponse
  \/ MainPrint
  \/ DevRespond
  \/ DevDeliver
  \/ DevHangup

Spec == Init /\ [][Next]_vars

\* ::select returning once what it waits for is there: the channel is readable
\* or the timeout is over.  Before that only an outside event, a signal or a bad
\* descriptor, makes it return, and nothing promises one.
SelectReturns ==
  /\ rx # <<>> \/ hup \/ waited = TIMEOUT_SEC
  /\ WaitResponse

\* ::read returning once what it waits for is there: with VMIN = 7 and VTIME = 1
\* it returns when a byte has come and the line fell silent for 0.1 s or 7 bytes
\* are there, and at once after a hangup.  With nothing waiting and no hangup
\* nothing promises its return.
ReadReturns ==
  /\ rx # <<>> \/ hup
  /\ ReadResponse

\* main on a machine that runs it: every statement of main is carried out in
\* the end, a system call returns once the condition it waits for holds, and
\* the clock goes on.  Nothing is assumed of the far end.
SpecFair ==
  /\ Spec
  /\ WF_vars(MainArgs) /\ WF_vars(DeviceOpen) /\ WF_vars(DeviceConfigure)
  /\ WF_vars(MainMode) /\ WF_vars(MainPrint)
  /\ WF_vars(SendRequest)
  /\ WF_vars(SelectWaits)
  /\ WF_vars(SelectReturns)
  /\ WF_vars(ReadReturns)

(***************************************************************************)
(* Part 3: the codec applied to packets drawn from bounded sets.  codec    *)
(* holds the sensor asked for, the packet, what Response::Get makes of it, *)
(* and for a changed packet the one it came from.                          *)
(***************************************************************************)

\* How many further byte values join the samples below
MaxExtra == 1

ExtraBytes == { (97 * j + 13) % 256 : j \in 1..MaxExtra }

SampleB1 == {0, 1, 255} \cup ExtraBytes
SampleB2 == {0, 1, 230} \cup ExtraBytes
SampleB3 == {0, 1, 5, 44} \cup ExtraBytes
SampleB4 == {0, 1}
SampleB5 == {0, 255}

\* Body[0] of the packets tried: the five response types, 0xa5 and 0xb0
SampleTypes == { BitOr(RESPONSE_TYPE, s) : s \in Sensors } \cup {165, REQUEST_TYPE}

\* a packet body from its seven bytes
Body7(t, b1, b2, b3, b4, b5, c) ==
  [i \in 0..6 |-> CASE i = 0 -> t [] i = 1 -> b1 [] i = 2 -> b2 [] i = 3 -> b3
                    [] i = 4 -> b4 [] i = 5 -> b5 [] i = 6 -> c]

\* a packet body with Body[6] set d above its checksum
WithChecksum(t, b1, b2, b3, b4, b5, d) ==
  LET b == Body7(t, b1, b2, b3, b4, b5, 0)
  IN  [b EXCEPT ![6] = (GetChecksum(b) + d) % 256]

CodecPackets ==
  { WithChecksum(t, b1, b2, b3, b4, b5, d) :
      t \in SampleTypes, b1 \in SampleB1, b2 \in SampleB2, b3 \in SampleB3,
      b4 \in SampleB4, b5 \in SampleB5, d \in {0, 1} }

\* the values a byte is changed to
Changed(old) == { (old + d) % 256 : d \in {1, 16, 255} }

CodecInit ==
  /\ codec \in { [CodecOff EXCEPT !.step = "input", !.sens = s, !.pkt = b] :
                   s \in Sensors,
                   b \in CodecPackets \cup { Request(r) : r \in Sensors } }
  /\ argc = 3
  /\ mode = OtherMode
  /\ pc = "exit"
  /\ handle = "none"
  /\ sens = TEST
  /\ wire = <<>>
  /\ rx = <<>>
  /\ hup = FALSE
  /\ devOn = FALSE
  /\ devFrame = ZeroBody
  /\ devSent = 0
  /\ resp = ZeroBody
  /\ waited = 0
  /\ ops = <<>>
  /\ result = NoResult
  /\ out = <<>>
  /\ exitCode = -1
  /\ sess = SessOff

sessionVars == <<argc, mode, pc, handle, sens, wire, rx, hup, devOn, devFrame,
                 devSent, resp, waited, ops, result, out, exitCode, sess>>

\* Response::Get on the packet as drawn
CodecDecode ==
  /\ codec.step = "input"
  /\ codec' = [codec EXCEPT !.step = "decoded",
                            !.res = ResponseGet(codec.pkt, codec.sens)]
  /\ UNCHANGED sessionVars

\* One of Body[0..5] is changed, Body[6] is left as it is, and Response::Get is
\* applied to the changed packet
CodecChange ==
  /\ codec.step = "decoded"
  /\ \E i \in 0..5 : \E v \in Changed(codec.pkt[i]) :
       LET b == [codec.pkt EXCEPT ![i] = v]
       IN  codec' = [codec EXCEPT !.step = "changed", !.pkt = b,
                                  !.res = ResponseGet(b, codec.sens),
                                  !.orig = codec.pkt, !.origres = codec.res,
                                  !.pos = i]
  /\ UNCHANGED sessionVars

\* The request for the sensor is turned into a response: the direction bits of
\* Body[0] become 0xa0, Body[1..5] a payload, Body[6] its checksum; then
\* Response::Get is applied
CodecTurn ==
  /\ codec.step = "input"
  /\ codec.pkt = Request(codec.sens)
  /\ \E b1 \in SampleB1, b2 \in SampleB2, b3 \in SampleB3, b4 \in SampleB4, b5 \in SampleB5 :
       LET t == BitOr(RESPONSE_TYPE, BitAnd(codec.pkt[0], 15))
           b == WithChecksum(t, b1, b2, b3, b4, b5, 0)
       IN  codec' = [codec EXCEPT !.step = "turned", !.pkt = b,
                                  !.res = ResponseGet(b, codec.sens),
                                  !.orig = codec.pkt]
  /\ UNCHANGED sessionVars

\* The request for any sensor with the direction bits of Body[0] changed to
\* 0xa0 and Body[1..5] left as Request::Request set them, Body[6] either left or
\* recomputed; then Response::Get is applied
CodecRedirect ==
  /\ codec.step = "input"
  /\ \E r \in Sensors : codec.pkt = Request(r)
  /\ \E recompute \in BOOLEAN :
       LET t == BitOr(RESPONSE_TYPE, BitAnd(codec.pkt[0], 15))
           a == [codec.pkt EXCEPT ![0] = t]
           b == IF recompute THEN [a EXCEPT ![6] = GetChecksum(a)] ELSE a
       IN  codec' = [codec EXCEPT !.step = "redirected", !.pkt = b,
                                  !.res = ResponseGet(b, codec.sens),
                                  !.orig = codec.pkt]
  /\ UNCHANGED sessionVars

CodecNext ==
  \/ CodecDecode
  \/ CodecChange
  \/ CodecTurn
  \/ CodecRedirect

SpecCodec == CodecInit /\ [][CodecNext]_vars

\* main and the codec side by side
SpecBoth == (Init \/ CodecInit) /\ [][Next \/ CodecNext]_vars

(***************************************************************************)
(* Part 4: a caller that keeps its Device.  main calls Get once and then   *)
(* destroys the Device; Device::Get is public and may be called again on   *)
(* the same object.  This caller constructs the Device as main does,       *)
(* catches what Get throws, and when a Get timed out or failed to read a   *)
(* whole response it calls Get for the same sensor again.                  *)
(***************************************************************************)

\* The most calls of Get made on one Device
MaxCalls == 2

\* the bytes the Get that has ended took from the channel: what its ::read
\* returned, if it came to call ::read and ::read did not fail
Taken ==
  IF ops # <<>> /\ \E k \in 1..Len(ops) : ops[k].op = "read" /\ ops[k].ret > 0
  THEN (CHOOSE o \in { ops[k] : k \in 1..Len(ops) } : o.op = "read").ret
  ELSE 0

\* the modes this caller is run with
SessionModes == {"energy", "test", OtherMode}

\* the failures of a Get after which this caller calls Get again
Retried == {"Timeout while reading", FailedTo("read response")}

SessionInit ==
  /\ argc \in {2, 3}
  /\ mode \in SessionModes
  /\ pc = "main"
  /\ handle = "none"
  /\ sens = TEST
  /\ wire = <<>>
  /\ rx = <<>>
  /\ hup = FALSE
  /\ devOn = FALSE
  /\ devFrame = ZeroBody
  /\ devSent = 0
  /\ resp = ZeroBody
  /\ waited = 0
  /\ ops = <<>>
  /\ result = NoResult
  /\ out = <<>>
  /\ exitCode = -1
  /\ codec = CodecOff
  /\ sess = [SessOff EXCEPT !.caller = "session", !.calls = 1]

\* Device::Get is called again after tcflush(Handle, TCIFLUSH)
SessionGetFlushed ==
  /\ sess.caller = "session"
  /\ pc = "caught"
  /\ result.err \in Retried
  /\ sess.calls < MaxCalls
  /\ sess' = [sess EXCEPT !.calls = @ + 1, !.rx0 = <<>>, !.prev = result,
                          !.taken = @ + Taken]
  /\ rx' = <<>>
  /\ ops' = <<>>
  /\ result' = NoResult
  /\ resp' = ZeroBody
  /\ waited' = 0
  /\ pc' = "SendRequest"
  /\ UNCHANGED <<argc, mode, handle, sens, wire, hup, devOn, devFrame, devSent,
                 out, exitCode, codec>>

\* Device::Get is called again on the same Device, for the same sensor: its
\* first statement is SendRequest, and nothing is done to the channel before it
SessionGet ==
  /\ sess.caller = "session"
  /\ pc = "caught"
  /\ result.err \in Retried
  /\ sess.calls < MaxCalls
  /\ sess' = [sess EXCEPT !.calls = @ + 1, !.rx0 = rx, !.prev = result,
                          !.taken = @ + Taken]
  /\ ops' = <<>>
  /\ result' = NoResult
  /\ resp' = ZeroBody
  /\ waited' = 0
  /\ pc' = "SendRequest"
  /\ UNCHANGED <<argc, mode, handle, sens, wire, rx, hup, devOn, devFrame, devSent,
                 out, exitCode, codec>>

\* The caller destroys the Device: ~Device closes Handle
SessionClose ==
  /\ sess.caller = "session"
  /\ pc \in {"print", "caught"}
  /\ handle' = "closed"
  /\ pc' = "exit"
  /\ UNCHANGED <<argc, mode, sens, wire, rx, hup, devOn, devFrame, devSent,
                 resp, waited, ops, result, out, exitCode, codec, sess>>

SessionNext ==
  \/ MainArgs
  \/ DeviceOpen
  \/ DeviceConfigure
  \/ MainMode
  \/ SendRequest
  \/ SelectWaits
  \/ WaitResponse
  \/ ReadResponse
  \/ SessionGet
  \/ SessionClose
  \/ DevRespond
  \/ DevDeliver
  \/ DevHangup

SpecSession == SessionInit /\ [][SessionNext]_vars

(***************************************************************************)
(* Part 5: the properties                                                  *)
(***************************************************************************)

\* The wire format as the specification words it, written without the codec's
\* operators: code(S) is the enumerator, 0xB0 = 176, 0xA0 = 160.
ExpectedRequest(s) ==
  LET t == 176 + s
  IN  <<t, 192, 168, 1, 1, 0, (t + 192 + 168 + 1 + 1 + 0) % 256>>

\* the required-zero bytes of the table in the specification
RequiredZero(s) ==
  CASE s = VOLTAGE -> {4, 5}
    [] s = CURRENT -> {4, 5}
    [] s = POWER -> {3, 4, 5}
    [] s = ENERGY -> {4, 5}
    [] s = TEST -> {1, 2, 3, 4, 5}

ByteSum(b) == (b[0] + b[1] + b[2] + b[3] + b[4] + b[5]) % 256

\* the three conditions of a valid response for sensor s
WellFormed(b, s) ==
  /\ b[0] = 160 + s
  /\ b[6] = ByteSum(b)
  /\ \A i \in RequiredZero(s) : b[i] = 0

\* the float f is exactly num / den
Exactly(f, num, den) == den * f.man = num * Pow2(23 - f.exp)

\* the float f read to the nearest 1/den
ReadAt(f, den) == RoundHalfEven(den * f.man, Pow2(23 - f.exp))

IsPrefix(p, q) == Len(p) <= Len(q) /\ p = SubSeq(q, 1, Len(p))

\* C1: the request built for each sensor is the 7 bytes [0xB0|code, 0xC0, 0xA8,
\* 0x01, 0x01, 0x00, sum of the first six mod 256]; SendRequest writes nothing but
\* these bytes, a leading part of them when the write is short and all seven when
\* it succeeds.
C1_RequestBytes ==
  /\ \A s \in Sensors : Prefix(Request(s), PacketSize) = ExpectedRequest(s)
  /\ IsPrefix(wire, ExpectedRequest(sens))
  /\ (ops # <<>> /\ ops[1].ok) => wire = ExpectedRequest(sens)

C1_Witness ==
  /\ pc = "WaitResponse"
  /\ sens = ENERGY
  /\ wire = <<179, 192, 168, 1, 1, 0, 29>>

\* C2: Response::Get returns a value exactly when the type byte, the checksum and
\* the required-zero bytes are all right, and otherwise throws and yields no
\* value; a Get of the Device that returned a value read a packet with all three
\* right.
C2_ValueIffWellFormed ==
  /\ codec.step \in {"decoded", "changed", "turned"} =>
       /\ codec.res.ok <=> WellFormed(codec.pkt, codec.sens)
       /\ ~codec.res.ok => (codec.res.err # "" /\ codec.res.val = FloatZero)
       /\ codec.res.ok => codec.res.err = ""
  /\ result.ok =>
       /\ WellFormed(resp, sens)
       /\ Len(ops) = 4 /\ ops[3] = Op("read", PacketSize, TRUE)
  /\ (\E k \in 1..Len(out) : out[k].kind \in {"reading", "text"}) => result.ok

C2_Witness ==
  /\ pc = "print"
  /\ result.ok
  /\ sens = VOLTAGE
  /\ resp = WithChecksum(160, 0, 230, 5, 0, 0, 0)

\* C3: an accepted response decodes to the value of the table: Voltage to
\* 256*B1 + B2 + B3/10 and Current to 256*B1 + B2 + B3/100, as the binary32 value
\* whose reading to the nearest tenth (hundredth) is 2560*B1 + 10*B2 + B3
\* (25600*B1 + 100*B2 + B3); Power to 256*B1 + B2, Energy to
\* 65536*B1 + 256*B2 + B3 <= 16777215 and Test to 0, exactly; the voltage packet
\* A0 00 E6 05 00 00 gives exactly 230.5 and the energy packet A3 00 01 2C 00 00
\* exactly 300.
C3_DecodedValue ==
  (codec.step \in {"decoded", "changed", "turned"} /\ codec.res.ok) =>
    LET b == codec.pkt
        v == codec.res.val
    IN  /\ codec.sens = VOLTAGE => ReadAt(v, 10) = 2560 * b[1] + 10 * b[2] + b[3]
        /\ codec.sens = CURRENT => ReadAt(v, 100) = 25600 * b[1] + 100 * b[2] + b[3]
        /\ codec.sens = POWER => Exactly(v, 256 * b[1] + b[2], 1)
        /\ codec.sens = ENERGY =>
             /\ Exactly(v, 65536 * b[1] + 256 * b[2] + b[3], 1)
             /\ 65536 * b[1] + 256 * b[2] + b[3] \in 0..16777215
        /\ codec.sens = TEST => v = FloatZero
        /\ v = FloatZero \/ (v.man >= Pow2(23) /\ v.man < Pow2(24))
        /\ (codec.sens = VOLTAGE /\ b[1] = 0 /\ b[2] = 230 /\ b[3] = 5) =>
             Exactly(v, 2305, 10)
        /\ (codec.sens = ENERGY /\ b[1] = 0 /\ b[2] = 1 /\ b[3] = 44) =>
             Exactly(v, 300, 1)

C3_Witness ==
  /\ codec.step = "decoded"
  /\ codec.res.ok
  /\ codec.sens = VOLTAGE
  /\ codec.pkt = WithChecksum(160, 0, 230, 5, 0, 0, 0)
  /\ codec.res.val = [man |-> 15106048, exp |-> 7]

\* C4 as claimed: changing any one of bytes 0..5 of any 7-byte array, byte 6
\* left alone, makes decoding fail with "Invalid checksum".
C4_AnyChangeIsChecksumMismatch ==
  codec.step = "changed" => (~codec.res.ok /\ codec.res.err = "Invalid checksum")

\* C4 as amended: when byte 6 of the array is the checksum of bytes 0..5,
\* changing one of bytes 0..5 and leaving byte 6 alone makes decoding fail: with
\* "Invalid checksum" when byte 0 of the changed array is 0xA0|code(S), with
\* "Invalid response type" when it is not.
C4_ChangedByteRejected ==
  (codec.step = "changed" /\ codec.orig[6] = ByteSum(codec.orig)) =>
    /\ ~codec.res.ok
    /\ codec.res.val = FloatZero
    /\ codec.pkt[0] = 160 + codec.sens => codec.res.err = "Invalid checksum"
    /\ codec.pkt[0] # 160 + codec.sens => codec.res.err = "Invalid response type"
    /\ (codec.origres.ok /\ codec.pos = 0) => codec.res.err = "Invalid response type"
    /\ (codec.origres.ok /\ codec.pos # 0) => codec.res.err = "Invalid checksum"

C4_Witness ==
  /\ codec.step = "changed"
  /\ codec.origres.ok
  /\ codec.pos = 0
  /\ codec.sens = VOLTAGE
  /\ codec.pkt[0] = 161
  /\ codec.res.err = "Invalid response type"

\* C5: a response whose byte 0 is 0xA0|code(S') for a sensor S' other than the
\* requested S fails with "Invalid response type" and yields no value, whatever
\* its other bytes.
C5_OtherSensorRejected ==
  (codec.step \in {"decoded", "changed", "turned"}
   /\ \E o \in Sensors \ {codec.sens} : codec.pkt[0] = 160 + o) =>
    /\ ~codec.res.ok
    /\ codec.res.err = "Invalid response type"
    /\ codec.res.val = FloatZero

C5_Witness ==
  /\ codec.step = "decoded"
  /\ codec.sens = VOLTAGE
  /\ codec.pkt = WithChecksum(162, 0, 0, 0, 0, 0, 0)
  /\ codec.res.err = "Invalid response type"

\* the text that names byte i of sensor s
FieldText(s, i) ==
  CASE s = VOLTAGE /\ i = 4 -> "VOLTAGE: Body[4]"
    [] s = VOLTAGE /\ i = 5 -> "VOLTAGE: Body[5]"
    [] s = CURRENT /\ i = 4 -> "CURRENT: Body[4]"
    [] s = CURRENT /\ i = 5 -> "CURRENT: Body[5]"
    [] s = POWER /\ i = 3 -> "POWER: Body[3]"
    [] s = POWER /\ i = 4 -> "POWER: Body[4]"
    [] s = POWER /\ i = 5 -> "POWER: Body[5]"
    [] s = ENERGY /\ i = 4 -> "ENERGY: Body[4]"
    [] s = ENERGY /\ i = 5 -> "ENERGY: Body[5]"
    [] s = TEST /\ i = 1 -> "TEST: Body[1]"
    [] s = TEST /\ i = 2 -> "TEST: Body[2]"
    [] s = TEST /\ i = 3 -> "TEST: Body[3]"
    [] s = TEST /\ i = 4 -> "TEST: Body[4]"
    [] s = TEST /\ i = 5 -> "TEST: Body[5]"

\* the required-zero bytes of s that are not 0 in b
NonZero(b, s) == { i \in RequiredZero(s) : b[i] # 0 }

\* C6: a response with the right type byte and checksum and a non-zero
\* required-zero byte fails with the text that names the sensor and its
\* lowest-indexed non-zero required-zero byte.
C6_LowestFieldNamed ==
  (codec.step \in {"decoded", "changed", "turned"}
   /\ codec.pkt[0] = 160 + codec.sens
   /\ codec.pkt[6] = ByteSum(codec.pkt)
   /\ NonZero(codec.pkt, codec.sens) # {}) =>
    /\ ~codec.res.ok
    /\ codec.res.val = FloatZero
    /\ \E i \in NonZero(codec.pkt, codec.sens) :
         /\ \A j \in NonZero(codec.pkt, codec.sens) : i <= j
         /\ codec.res.err = FieldText(codec.sens, i)

C6_Witness ==
  /\ codec.step = "decoded"
  /\ codec.sens = POWER
  /\ codec.pkt = WithChecksum(162, 0, 230, 1, 1, 255, 0)
  /\ codec.res.err = "POWER: Body[3]"

\* the float v is the value the payload bytes b1, b2, b3 encode for sensor s
ValueOf(v, s, b1, b2, b3) ==
  CASE s = VOLTAGE -> ReadAt(v, 10) = 2560 * b1 + 10 * b2 + b3
    [] s = CURRENT -> ReadAt(v, 100) = 25600 * b1 + 100 * b2 + b3
    [] s = POWER -> Exactly(v, 256 * b1 + b2, 1)
    [] s = ENERGY -> Exactly(v, 65536 * b1 + 256 * b2 + b3, 1)
    [] s = TEST -> v = FloatZero

\* C7: the request of sensor S with the direction bits of byte 0 set to 0xA0,
\* bytes 1..5 replaced by a payload whose required-zero bytes of S are 0 and
\* byte 6 recomputed is accepted for S and decodes to the value the payload
\* encodes.
C7_RoundTrip ==
  (codec.step = "turned" /\ NonZero(codec.pkt, codec.sens) = {}) =>
    /\ Prefix(codec.orig, PacketSize) = ExpectedRequest(codec.sens)
    /\ codec.pkt[0] = 160 + codec.sens
    /\ codec.pkt[6] = ByteSum(codec.pkt)
    /\ codec.res.ok
    /\ ValueOf(codec.res.val, codec.sens, codec.pkt[1], codec.pkt[2], codec.pkt[3])

C7_Witness ==
  /\ codec.step = "turned"
  /\ codec.sens = CURRENT
  /\ Prefix(codec.orig, PacketSize) = <<177, 192, 168, 1, 1, 0, 27>>
  /\ codec.pkt = WithChecksum(161, 255, 230, 44, 0, 0, 0)
  /\ codec.res.ok
  /\ ReadAt(codec.res.val, 100) = 6551044

\* the calls of ops, in order
OpNames == [k \in 1..Len(ops) |-> ops[k].op]

\* the lines of std::cout that show a reading or "Ok!"
Readings == { k \in 1..Len(out) : out[k].kind \in {"reading", "text"} }

\* C8, in every state: the calls of a Get are a leading part of write, select,
\* read, decode; none follows a call whose check failed; the place of main tells
\* which calls were made; and a Get that ended has returned a value after all
\* four or thrown after the one that failed.
C8_Order ==
  /\ IsPrefix(OpNames, <<"write", "select", "read", "decode">>)
  /\ \A k \in 1..(Len(ops) - 1) : ops[k].ok
  /\ pc = "SendRequest" => ops = <<>>
  /\ pc = "WaitResponse" => OpNames = <<"write">> /\ ops[1].ok
  /\ pc = "ReadResponse" => OpNames = <<"write", "select">> /\ ops[2].ok /\ ops[2].ret > 0
  /\ pc = "print" => Len(ops) = 4 /\ ops[4].ok /\ result.ok
  /\ pc \in {"SendRequest", "WaitResponse", "ReadResponse"} => result = NoResult
  /\ result.ok => (pc \in {"print", "exit"} /\ Len(ops) = 4 /\ ops[4].ok)
  /\ (~result.ok /\ result # NoResult) =>
       (pc = "exit" /\ ops # <<>> /\ ~ops[Len(ops)].ok /\ result.err # "")
  /\ (pc = "exit" /\ ops # <<>>) => result # NoResult

\* C8, in every step: calls are only added to those made, and once the Get has
\* ended none is added, nothing more is written and nothing more is read.
C8_Step ==
  /\ IsPrefix(ops, ops')
  /\ result # NoResult => (ops' = ops /\ wire' = wire /\ resp' = resp /\ result' = result)

\* C8: every Get goes write, readiness wait, read, decode in this order, each
\* step once and only after the one before it succeeded, and ends decoded or
\* failed within the one call.
C8_QueryOrder == []C8_Order /\ [][C8_Step]_vars

C8_Witness ==
  /\ pc = "print"
  /\ OpNames = <<"write", "select", "read", "decode">>
  /\ result.ok

\* C9: a ::select that returns 0 or less ends the Get with "Timeout while
\* reading": nothing is read, nothing is decoded, main prints the text and
\* returns 1; the wait lasts no longer than the timeout, at whose end the call
\* returns.
C9_Timeout ==
  /\ waited <= TIMEOUT_SEC
  /\ (pc = "WaitResponse" /\ waited = TIMEOUT_SEC) => ENABLED WaitResponse
  /\ \A k \in 1..Len(ops) :
       (ops[k].op = "select" /\ ops[k].ret <= 0) =>
         /\ k = Len(ops)
         /\ result = Throw("Timeout while reading")
         /\ resp = ZeroBody
         /\ pc = "exit"
         /\ exitCode = 1
         /\ out = <<Line("error", "Timeout while reading", FloatZero)>>

C9_Witness ==
  /\ Len(ops) = 2
  /\ ops[2] = Op("select", 0, FALSE)
  /\ waited = TIMEOUT_SEC
  /\ rx = <<>>
  /\ result.err = "Timeout while reading"
  /\ exitCode = 1

\* C10: a ::read that returns fewer than 7 bytes (1 to 6, 0 at a hangup, -1 on an
\* error) ends the Get with "Failed to read response": the packet is not
\* decoded, no reading is printed, and main returns 1.
C10_ShortRead ==
  \A k \in 1..Len(ops) :
    (ops[k].op = "read" /\ ops[k].ret < 7) =>
      /\ k = Len(ops)
      /\ ~ops[k].ok
      /\ result = Throw("Failed to read response")
      /\ pc = "exit"
      /\ exitCode = 1
      /\ Readings = {}
      /\ out = <<Line("error", "Failed to read response", FloatZero)>>

C10_Witness ==
  /\ Len(ops) = 3
  /\ ops[3] = Op("read", 3, FALSE)
  /\ resp[0] = 160 /\ resp[2] = 230 /\ resp[3] = 0
  /\ result.err = "Failed to read response"
  /\ Readings = {}

\* the entries of ops that are calls of name
Calls(name) == { k \in 1..Len(ops) : ops[k].op = name }

\* C11: a Get writes to the channel at most once and reads it at most once; a
\* ::write that takes fewer than 7 bytes ends it with "Failed to send request",
\* without a wait or a read; and a call whose check failed is the last call of
\* the Get, after which main has printed the error and returned 1.
C11_NoRetry ==
  /\ Cardinality(Calls("write")) <= 1
  /\ Cardinality(Calls("select")) <= 1
  /\ Cardinality(Calls("read")) <= 1
  /\ Len(wire) <= PacketSize
  /\ \A k \in Calls("write") :
       ops[k].ret < 7 =>
         /\ Len(ops) = 1
         /\ result = Throw("Failed to send request")
         /\ resp = ZeroBody
         /\ out = <<Line("error", "Failed to send request", FloatZero)>>
  /\ \A k \in 1..Len(ops) :
       ~ops[k].ok =>
         /\ k = Len(ops)
         /\ pc = "exit"
         /\ exitCode = 1
         /\ ~result.ok /\ result.err # ""
         /\ out = <<Line("error", result.err, FloatZero)>>

C11_Witness ==
  /\ ops = <<Op("write", 3, FALSE)>>
  /\ wire = <<178, 192, 168>>
  /\ rx # <<>>
  /\ result.err = "Failed to send request"
  /\ pc = "exit"

\* C12: when main has returned, a descriptor that ::open gave has been closed.
C12_HandleReleased == pc = "exit" => handle # "open"

\* C13: main returns 0 exactly when its one Get returned a value, and then it
\* has printed one line, the value Get returned or "Ok!" for mode test; in all
\* other cases it returns 1 and has printed one line that is neither.
C13_ExitCode ==
  /\ exitCode \in {-1, 0, 1}
  /\ (pc = "exit") <=> (exitCode # -1)
  /\ pc # "exit" => out = <<>>
  /\ pc = "exit" =>
       /\ (exitCode = 0) <=> result.ok
       /\ Len(out) = 1
       /\ exitCode = 0 =>
            /\ argc >= 3 /\ mode \in Modes
            /\ Len(ops) = 4 /\ WellFormed(resp, sens)
            /\ mode = "test" => out[1] = Line("text", "Ok!", FloatZero)
            /\ mode # "test" => out[1] = Line("reading", "", result.val)
       /\ exitCode = 1 =>
            /\ Readings = {}
            /\ out[1].kind \in {"usage", "error"}

C13_Witness ==
  /\ pc = "exit"
  /\ exitCode = 0
  /\ mode = "energy"
  /\ resp = WithChecksum(163, 0, 1, 44, 0, 0, 0)
  /\ out = <<Line("reading", "", [man |-> 9830400, exp |-> 8])>>

\* the sensor code each mode stands for
ModeCode(m) ==
  CASE m = "voltage" -> 0
    [] m = "current" -> 1
    [] m = "power" -> 2
    [] m = "energy" -> 3
    [] m = "test" -> 4

\* C18: with fewer than two arguments the device is never opened; with an
\* unknown mode no byte is written or read, and once the device is opened and
\* configured main closes it and returns 1; with a known mode the only bytes
\* written are those of one request with the mode's sensor code, in one ::write,
\* made once the device is opened and configured.
C18_ModeGuardsWrite ==
  /\ argc < 3 => (handle = "none" /\ wire = <<>> /\ ops = <<>>)
  /\ mode \notin Modes =>
       /\ wire = <<>> /\ ops = <<>> /\ resp = ZeroBody
       /\ Len(rx) = devSent
       /\ pc \notin {"SendRequest", "WaitResponse", "ReadResponse", "print"}
       /\ (pc = "exit" /\ argc >= 3) =>
            /\ exitCode = 1
            /\ out[1].text = "Unknown mode" <=> handle = "closed"
  /\ mode \in Modes =>
       /\ Cardinality(Calls("write")) <= 1
       /\ IsPrefix(wire, ExpectedRequest(ModeCode(mode)))
       /\ pc \in {"WaitResponse", "ReadResponse", "print"} =>
            (Cardinality(Calls("write")) = 1 /\ wire = ExpectedRequest(ModeCode(mode)))
       /\ (pc = "exit" /\ handle = "closed") => Cardinality(Calls("write")) = 1
       /\ wire # <<>> => handle # "none"

C18_Witness ==
  /\ mode = OtherMode
  /\ pc = "exit"
  /\ handle = "closed"
  /\ exitCode = 1
  /\ wire = <<>>
  /\ rx # <<>>

\* C14: Response::Get tests the type byte first, the checksum second and the
\* required-zero bytes last: a packet with a wrong type byte fails with "Invalid
\* response type" whatever its checksum, a packet with the right type byte and a
\* wrong checksum fails with "Invalid checksum" whatever its other bytes, and a
\* failure carries one message and no value.
C14_ValidationOrder ==
  codec.step \in {"decoded", "changed", "turned", "redirected"} =>
    LET b == codec.pkt
        s == codec.sens
        r == codec.res
    IN  /\ b[0] # 160 + s => r = Throw("Invalid response type")
        /\ (b[0] = 160 + s /\ b[6] # ByteSum(b)) => r = Throw("Invalid checksum")
        /\ (b[0] = 160 + s /\ b[6] = ByteSum(b) /\ NonZero(b, s) # {}) =>
             /\ ~r.ok
             /\ r.err \notin {"", "Invalid response type", "Invalid checksum"}
        /\ r.ok <=> r.err = ""
        /\ ~r.ok => r.val = FloatZero

C14_Witness ==
  /\ codec.step = "changed"
  /\ codec.pos = 0
  /\ codec.orig[0] = 160 + codec.sens
  /\ codec.orig[6] # ByteSum(codec.orig)
  /\ NonZero(codec.orig, codec.sens) # {}
  /\ codec.origres = Throw("Invalid checksum")
  /\ codec.pkt[6] # ByteSum(codec.pkt)
  /\ codec.res = Throw("Invalid response type")

\* C17: the 7 bytes of the request for any sensor, given to Response::Get for
\* any sensor, fail with "Invalid response type"; and the request with only the
\* direction bits of its type byte changed to 0xA0, bytes 1..4 still C0 A8 01
\* 01, is rejected for every sensor, with its checksum byte left or recomputed.
C17_RequestNotAResponse ==
  /\ (codec.step = "decoded" /\ \E r \in Sensors : Prefix(codec.pkt, PacketSize) = ExpectedRequest(r)) =>
       codec.res = Throw("Invalid response type")
  /\ codec.step = "redirected" =>
       /\ \E r \in Sensors :
            /\ Prefix(codec.orig, PacketSize) = ExpectedRequest(r)
            /\ codec.pkt[0] = 160 + r
       /\ \A i \in 1..5 : codec.pkt[i] = codec.orig[i]
       /\ codec.pkt[6] \in {codec.orig[6], ByteSum(codec.pkt)}
       /\ ~codec.res.ok
       /\ codec.res.err # ""

C17_Witness ==
  /\ codec.step = "redirected"
  /\ codec.sens = ENERGY
  /\ codec.pkt = Body7(163, 192, 168, 1, 1, 0, 13)
  /\ codec.res = Throw("ENERGY: Body[4]")

\* C16: once Get has started, it returns a value or throws, whatever the far end
\* does; ::select is the only call that waits for the far end, for no longer
\* than its timeout, at whose end it returns, and ::read is called only with a
\* byte waiting or after a hangup, when it returns without the far end.
C16_WaitBounded ==
  /\ waited <= TIMEOUT_SEC
  /\ (pc = "WaitResponse" /\ waited = TIMEOUT_SEC) => ENABLED SelectReturns
  /\ pc = "ReadResponse" => ENABLED ReadReturns
  /\ pc = "SendRequest" => ENABLED SendRequest

C16_Terminates ==
  /\ []C16_WaitBounded
  /\ (pc = "SendRequest") ~> (result # NoResult)

C16_Witness ==
  /\ pc = "exit"
  /\ devSent = 3
  /\ ~hup
  /\ waited = TIMEOUT_SEC
  /\ ops = <<Op("write", 7, TRUE), Op("select", 1, TRUE), Op("read", 3, FALSE)>>
  /\ result = Throw("Failed to read response")

\* C15: Get never drains or flushes the channel.  Every byte that has arrived
\* is still waiting or was returned by a ::read; a Get that timed out took none;
\* the bytes waiting when the next Get on the same Device starts stay at the
\* head of the channel and are the first bytes its ::read returns; and the
\* channel changes only by an arriving byte at its tail or by ::read taking at
\* most 7 bytes from its head.
C15_Left ==
  /\ Len(rx) + sess.taken + Taken = devSent
  /\ (~result.ok /\ result.err = "Timeout while reading") => Taken = 0
  /\ (sess.calls >= 2 /\ Calls("read") = {}) => IsPrefix(sess.rx0, rx)
  /\ (sess.calls >= 2 /\ Taken > 0) =>
       \A i \in 0..(Min(Taken, Len(sess.rx0)) - 1) : resp[i] = sess.rx0[i + 1]

C15_Step ==
  rx' # rx =>
    \/ \E b \in Byte : rx' = Append(rx, b)
    \/ /\ pc = "ReadResponse"
       /\ Len(rx) - Len(rx') \in 1..PacketSize
       /\ rx' = SubSeq(rx, Len(rx) - Len(rx') + 1, Len(rx))
       /\ \A i \in 0..(Len(rx) - Len(rx') - 1) : resp'[i] = rx[i + 1]

C15_NoFlush == []C15_Left /\ [][C15_Step]_vars

C15_Witness ==
  /\ sess.calls = 2
  /\ sess.prev = Throw("Timeout while reading")
  /\ sess.taken = 0
  /\ sess.rx0 = Prefix(WithChecksum(163, 0, 1, 44, 0, 0, 0), PacketSize)
  /\ wire = ExpectedRequest(ENERGY) \o ExpectedRequest(ENERGY)
  /\ pc = "print"
  /\ ops = <<Op("write", 7, TRUE), Op("select", 1, TRUE), Op("read", 7, TRUE),
             Op("decode", 0, TRUE)>>
  /\ result = Return([man |-> 9830400, exp |-> 8])

=============================================================================
